---- MODULE Spec2Model ----
(***************************************************************************)
(* Model of src/src/topology/point_cloud.rs: the four point-cloud samplers *)
(* unit_circle, unit_sphere_surface, unit_ball, torus and the shared       *)
(* helper add_noise.                                                       *)
(*                                                                         *)
(* f64 values are modelled as fixed-point integers: the integer v stands   *)
(* for the real number v / Scale.  Every arithmetic operation rounds its   *)
(* exact result to the nearest representable value, as IEEE-754 does, so   *)
(* that rounding error is something the checks can see.                    *)
(*                                                                         *)
(* One call of one sampler is one behaviour: Init draws the sampler and    *)
(* its arguments, the actions are the statements of the called function    *)
(* (one loop iteration or one random draw per step).                       *)
(***************************************************************************)
EXTENDS Integers, Sequences, FiniteSets

(***************************************************************************)
(* Bounds of the model.                                                    *)
(***************************************************************************)
\* largest point count m of a call without noise
MaxM == 4
\* largest point count m of a call with a noise interval
MaxNoisyM == 2

(***************************************************************************)
(* f64 as fixed point.                                                     *)
(***************************************************************************)
\* number of representable values per unit: v stands for v / Scale
Scale == 1000
\* std::f64::consts::PI, rounded to the resolution
PI_FX == 3142
TwoPi == 2 * PI_FX
HalfPi == PI_FX \div 2
\* the f64 NaN: every operation on it yields it
NaN == 0 - 1073741824

Abs(a) == IF a < 0 THEN 0 - a ELSE a

\* a / b for b > 0, rounded to the nearest integer (ties away from zero)
RDiv(a, b) == IF a >= 0 THEN (2 * a + b) \div (2 * b)
                        ELSE 0 - ((2 * (0 - a) + b) \div (2 * b))

\* f64 `+`
FAdd(a, b) == IF a = NaN \/ b = NaN THEN NaN ELSE a + b
\* f64 `-`
FSub(a, b) == IF a = NaN \/ b = NaN THEN NaN ELSE a - b
\* f64 `*`
FMul(a, b) == IF a = NaN \/ b = NaN THEN NaN ELSE RDiv(a * b, Scale)
\* f64 `/` by the integer-valued m as f64: 0/0 is NaN, and k/0 for k > 0 is
\* +inf, whose cos and sin are NaN: either way the point built from it is NaN
FDivCount(a, n) == IF a = NaN \/ n = 0 THEN NaN ELSE RDiv(a, n)

RECURSIVE FloorRoot(_, _, _, _)
\* the largest r in lo..hi-1 with r^k <= n, for k = 2 or 3, given that
\* lo^k <= n < hi^k: found by bisection
FloorRoot(k, n, lo, hi) ==
    IF hi - lo <= 1 THEN lo
    ELSE LET mid == (lo + hi) \div 2
             pw  == IF k = 2 THEN mid * mid ELSE mid * mid * mid
         IN  IF pw <= n THEN FloorRoot(k, n, mid, hi) ELSE FloorRoot(k, n, lo, mid)

\* f64::sqrt for an argument in [0, 4): the nearest representable value to
\* the root; NaN for a negative argument
Sqrt(v) == IF v = NaN \/ v < 0 THEN NaN
           ELSE LET n == v * Scale
                    f == FloorRoot(2, n, 0, 2 * Scale)
                IN  IF n - f * f > f THEN f + 1 ELSE f

\* f64::cbrt for an argument in [0, 1]: the representable value whose cube
\* is nearest
Cbrt(v) == IF v = NaN THEN NaN
           ELSE LET n == v * Scale * Scale
                    f == FloorRoot(3, n, 0, Scale + 1)
                IN  IF n - f * f * f > (f + 1) * (f + 1) * (f + 1) - n THEN f + 1 ELSE f

\* cos on [0, pi/2]: the Taylor polynomial of degree 8, rounded at every step
CosKernel(x) == LET x2 == FMul(x, x)
                    x4 == FMul(x2, x2)
                    x6 == FMul(x4, x2)
                    x8 == FMul(x4, x4)
                IN  Scale - RDiv(x2, 2) + RDiv(x4, 24) - RDiv(x6, 720) + RDiv(x8, 40320)
\* f64::cos for an argument in [-pi/2, 2 pi]: reduced to [0, pi/2] by the
\* symmetries cos(t) = cos(t - 2 pi) = cos(-t) = -cos(pi - t)
Cos(t) == IF t = NaN THEN NaN
          ELSE LET a == Abs(IF t > PI_FX THEN t - TwoPi ELSE t)
               IN  IF a > HalfPi THEN 0 - CosKernel(PI_FX - a) ELSE CosKernel(a)
\* f64::sin, as sin(t) = cos(t - pi/2)
Sin(t) == IF t = NaN THEN NaN ELSE Cos(t - HalfPi)

(***************************************************************************)
(* Option<T>: None is the empty sequence, Some(x) the one-element one.     *)
(***************************************************************************)
None == <<>>
Some(x) == <<x>>

(***************************************************************************)
(* rand: the values a draw can return.  A draw from a range returns any    *)
(* value of the range; the model follows the draws listed here.            *)
(***************************************************************************)
\* angles followed for a draw from 0.0..2 pi
ThetaSamples == {785, 3927}
\* heights followed for a draw from -1.0..1.0
ZSamples == {0 - Scale, 600}
\* values followed for rng.gen::<f64>(), uniform in [0, 1)
USamples == {125, 999}

\* Range<f64>::is_empty, on which Rng::gen_range panics ("cannot sample
\* empty range")
RangeIsEmpty(lo, hi) == ~(lo < hi)
\* Rng::gen_range(lo..hi): the values in [lo, hi) among those followed
GenRange(lo, hi, followed) == {x \in followed : lo <= x /\ x < hi}
\* Rng::gen::<f64>(): the values in [0, 1) among those followed
GenUnit(followed) == {x \in followed : 0 <= x /\ x < Scale}
\* the range z is drawn from, -1.0..1.0
ZRange == <<0 - Scale, Scale>>

(***************************************************************************)
(* The arguments a call is followed for.                                   *)
(***************************************************************************)
Samplers == {"unit_circle", "unit_sphere_surface", "unit_ball", "torus"}
\* noise intervals lo..hi: two valid ones, an empty one and a reversed one
NoiseRanges == {<<0 - 1, 1>>, <<5, 6>>, <<3, 3>>, <<2, 0 - 2>>}
MajorArgs == {0 - Scale, 0, 2 * Scale}
MinorArgs == {0 - (Scale \div 2), 0, Scale \div 2}

VARIABLES
    sampler,      \* the function called
    m,            \* its argument m
    major, minor, \* torus' radii (0 for the other samplers, which have none)
    noise_range,  \* its argument noise_range: None or Some(<<lo, hi>>)
    pc,           \* the statement the call is at
    pts,          \* the local pts (add_noise's points borrows it)
    ni, nj,       \* add_noise's position: point ni, coordinate nj
    ret,          \* what the call has returned: None or Some(cloud)
    raw,          \* history: pts as it was when add_noise was called
    drawn,        \* history: per generated point, the values drawn for it
    pushed,       \* history: number of points generated
    closureCalls, \* history: number of invocations of unit_circle's closure
    divByZero,    \* history: whether a division by m = 0 was evaluated
    rngDraws,     \* history: number of random values drawn while generating
    noiseDraws,   \* history: number of random values drawn by add_noise
    noiseCalls,   \* history: number of calls of add_noise
    checked       \* history: whether torus' assertion has been evaluated

args == <<sampler, m, major, minor, noise_range>>
hist == <<raw, drawn, pushed, closureCalls, divByZero, rngDraws, noiseDraws, noiseCalls, checked>>
vars == <<args, pc, pts, ni, nj, ret, hist>>

\* the dimension of the points a sampler builds
Dim(s) == IF s = "unit_circle" THEN 2 ELSE 3

Init ==
    /\ sampler \in Samplers
    /\ m \in 0..MaxM
    /\ noise_range \in {None} \cup {Some(r) : r \in NoiseRanges}
    /\ noise_range # None => m <= MaxNoisyM
    /\ IF sampler = "torus"
          THEN major \in MajorArgs /\ minor \in MinorArgs
          ELSE major = 0 /\ minor = 0
    /\ pc = "entry"
    /\ pts = <<>>
    /\ ni = 1 /\ nj = 1
    /\ ret = None
    /\ raw = <<>>
    /\ drawn = <<>>
    /\ pushed = 0
    /\ closureCalls = 0
    /\ divByZero = FALSE
    /\ rngDraws = 0
    /\ noiseDraws = 0
    /\ noiseCalls = 0
    /\ checked = FALSE

(***************************************************************************)
(* The samplers.                                                           *)
(***************************************************************************)
\* the range taken as the inclusive 0..=m
InRangeInclusive(i, n) == i <= n

\* the condition of `for _ in 0..m` and of `(0..m).map(..)`: is index i,
\* counted from 0, in the range
InRange(i, n) == i < n

\* circpoint with the angles counted from 1 instead of 0
circpointShifted(k, n) ==
    LET theta == FDivCount((k + 1) * 2 * PI_FX, n)
    IN  <<Cos(theta), Sin(theta)>>

\* unit_circle's closure circpoint
circpoint(k, n) ==
    LET theta == FDivCount(k * 2 * PI_FX, n)
    IN  <<Cos(theta), Sin(theta)>>

\* the point unit_sphere_surface pushes for the draws theta, z
SpherePoint(theta, z) ==
    LET r == Sqrt(FSub(Scale, FMul(z, z)))
    IN  <<FMul(r, Cos(theta)), FMul(r, Sin(theta)), z>>

\* the radius taken as the draw itself, without the cube root
BallRadiusNaive(u) == u

\* unit_ball's radius for the draw u
BallRadius(u) == Cbrt(u)

\* the point unit_ball pushes for the draws theta, z, u
BallPoint(theta, z, u) ==
    LET r_xy == Sqrt(FSub(Scale, FMul(z, z)))
        dir  == <<FMul(r_xy, Cos(theta)), FMul(r_xy, Sin(theta)), z>>
        r    == BallRadius(u)
    IN  <<FMul(r, dir[1]), FMul(r, dir[2]), FMul(r, dir[3])>>

\* the assertion with `||` for `&&`
TorusRadiiEither(R, r) == R > 0 \/ r > 0

\* the condition of torus' assert!
TorusRadiiOk(R, r) == R > 0 /\ r > 0

\* the point torus pushes for the draws u, v
TorusPoint(R, r, u, v) ==
    LET cx == FMul(FAdd(R, FMul(r, Cos(v))), Cos(u))
        cy == FMul(FAdd(R, FMul(r, Cos(v))), Sin(u))
        cz == FMul(r, Sin(v))
    IN  <<cx, cy, cz>>

\* an absent range taken as a default range
SomeRangeOrDefault(nr) == IF nr = None THEN {<<0 - 1, 1>>} ELSE {nr[1]}
\* the range ignored: no noise is ever added
SomeRangeIgnored(nr) == {}

\* `if let Some(r) = noise_range`: the bindings of r
SomeRange(nr) == IF nr = None THEN {} ELSE {nr[1]}

\* `*coord = d`: the draw overwrites the coordinate
PerturbOverwrite(coord, d) == d

\* `*coord += d`
Perturb(coord, d) == FAdd(coord, d)

\* the loop left one iteration early
LoopDoneEarly(i, n) == i >= n - 1

\* the loop of a sampler is over once its index leaves the range
LoopDone(i, n) == ~InRange(i, n)

\* unit_circle, unit_sphere_surface, unit_ball: the statements before the loop
Entry ==
    /\ pc = "entry"
    /\ sampler # "torus"
    /\ pc' = "generate"
    /\ UNCHANGED <<args, pts, ni, nj, ret, hist>>

\* torus: the assertion holds
TorusAssertPass ==
    /\ pc = "entry"
    /\ sampler = "torus"
    /\ TorusRadiiOk(major, minor)
    /\ pc' = "generate"
    /\ checked' = TRUE
    /\ UNCHANGED <<args, pts, ni, nj, ret, raw, drawn, pushed, closureCalls,
                   divByZero, rngDraws, noiseDraws, noiseCalls>>

\* torus: the assertion fails, the call panics
TorusAssertFail ==
    /\ pc = "entry"
    /\ sampler = "torus"
    /\ ~TorusRadiiOk(major, minor)
    /\ pc' = "panicked"
    /\ checked' = TRUE
    /\ UNCHANGED <<args, pts, ni, nj, ret, raw, drawn, pushed, closureCalls,
                   divByZero, rngDraws, noiseDraws, noiseCalls>>

\* unit_circle: one element of (0..m).map(circpoint).collect()
CircleStep ==
    /\ pc = "generate"
    /\ sampler = "unit_circle"
    /\ InRange(Len(pts), m)
    /\ pts' = Append(pts, circpoint(Len(pts), m))
    /\ drawn' = Append(drawn, <<>>)
    /\ pushed' = pushed + 1
    /\ closureCalls' = closureCalls + 1
    /\ divByZero' = (divByZero \/ m = 0)
    /\ UNCHANGED <<args, pc, ni, nj, ret, raw, rngDraws, noiseDraws, noiseCalls, checked>>

\* unit_sphere_surface: one iteration of the loop
SphereStep ==
    /\ pc = "generate"
    /\ sampler = "unit_sphere_surface"
    /\ InRange(Len(pts), m)
    /\ \E theta \in GenRange(0, TwoPi, ThetaSamples), z \in GenRange(ZRange[1], ZRange[2], ZSamples) :
          /\ pts' = Append(pts, SpherePoint(theta, z))
          /\ drawn' = Append(drawn, <<theta, z>>)
    /\ pushed' = pushed + 1
    /\ rngDraws' = rngDraws + 2
    /\ UNCHANGED <<args, pc, ni, nj, ret, raw, closureCalls, divByZero, noiseDraws,
                   noiseCalls, checked>>

\* unit_ball: one iteration of the loop
BallStep ==
    /\ pc = "generate"
    /\ sampler = "unit_ball"
    /\ InRange(Len(pts), m)
    /\ \E theta \in GenRange(0, TwoPi, ThetaSamples), z \in GenRange(ZRange[1], ZRange[2], ZSamples),
          u \in GenUnit(USamples) :
          /\ pts' = Append(pts, BallPoint(theta, z, u))
          /\ drawn' = Append(drawn, <<theta, z, u>>)
    /\ pushed' = pushed + 1
    /\ rngDraws' = rngDraws + 3
    /\ UNCHANGED <<args, pc, ni, nj, ret, raw, closureCalls, divByZero, noiseDraws,
                   noiseCalls, checked>>

\* torus: one iteration of the loop
TorusStep ==
    /\ pc = "generate"
    /\ sampler = "torus"
    /\ InRange(Len(pts), m)
    /\ \E u \in GenRange(0, TwoPi, ThetaSamples), v \in GenRange(0, TwoPi, ThetaSamples) :
          /\ pts' = Append(pts, TorusPoint(major, minor, u, v))
          /\ drawn' = Append(drawn, <<u, v>>)
    /\ pushed' = pushed + 1
    /\ rngDraws' = rngDraws + 2
    /\ UNCHANGED <<args, pc, ni, nj, ret, raw, closureCalls, divByZero, noiseDraws,
                   noiseCalls, checked>>

\* the loop is over: add_noise(&mut pts, noise_range) is called
CallAddNoise ==
    /\ pc = "generate"
    /\ LoopDone(Len(pts), m)
    /\ pc' = "add_noise"
    /\ raw' = pts
    /\ noiseCalls' = noiseCalls + 1
    /\ ni' = 1 /\ nj' = 1
    /\ UNCHANGED <<args, pts, ret, drawn, pushed, closureCalls, divByZero, rngDraws,
                   noiseDraws, checked>>

(***************************************************************************)
(* add_noise.                                                              *)
(***************************************************************************)
\* noise_range is None: add_noise returns at once
NoiseNone ==
    /\ pc = "add_noise"
    /\ SomeRange(noise_range) = {}
    /\ pc' = "return"
    /\ UNCHANGED <<args, pts, ni, nj, ret, hist>>

\* rng.gen_range(r.clone()) on an empty range: the draw panics, and the
\* unwinding drops pts
NoiseDrawPanics ==
    /\ pc = "add_noise"
    /\ \E r \in SomeRange(noise_range) :
          /\ ni <= Len(pts)
          /\ RangeIsEmpty(r[1], r[2])
    /\ pc' = "panicked"
    /\ pts' = <<>>
    /\ UNCHANGED <<args, ni, nj, ret, hist>>

\* `*coord += rng.gen_range(r.clone())` for coordinate nj of point ni
NoiseDraw ==
    /\ pc = "add_noise"
    /\ \E r \in SomeRange(noise_range) :
          /\ ni <= Len(pts)
          /\ ~RangeIsEmpty(r[1], r[2])
          /\ \E d \in GenRange(r[1], r[2], r[1]..r[2]) :
                pts' = [pts EXCEPT ![ni][nj] = Perturb(pts[ni][nj], d)]
    /\ noiseDraws' = noiseDraws + 1
    /\ IF nj < Len(pts[ni])
          THEN ni' = ni /\ nj' = nj + 1
          ELSE ni' = ni + 1 /\ nj' = 1
    /\ UNCHANGED <<args, pc, ret, raw, drawn, pushed, closureCalls, divByZero,
                   rngDraws, noiseCalls, checked>>

\* both loops of add_noise are over: it returns
NoiseDone ==
    /\ pc = "add_noise"
    /\ SomeRange(noise_range) # {}
    /\ ni > Len(pts)
    /\ pc' = "return"
    /\ UNCHANGED <<args, pts, ni, nj, ret, hist>>

\* the sampler's last expression: pts is returned
Return ==
    /\ pc = "return"
    /\ ret' = Some(pts)
    /\ pc' = "done"
    /\ UNCHANGED <<args, pts, ni, nj, hist>>

Next ==
    \/ Entry
    \/ TorusAssertPass
    \/ TorusAssertFail
    \/ CircleStep
    \/ SphereStep
    \/ BallStep
    \/ TorusStep
    \/ CallAddNoise
    \/ NoiseNone
    \/ NoiseDrawPanics
    \/ NoiseDraw
    \/ NoiseDone
    \/ Return

Spec == Init /\ [][Next]_vars

(***************************************************************************)
(* Properties.                                                             *)
(***************************************************************************)
\* the call has ended
Terminal == pc \in {"done", "panicked"}
\* the noise argument is absent or an interval with lo < hi
NoiseValid == noise_range = None \/ noise_range[1][1] < noise_range[1][2]
\* the noise argument is an interval with lo >= hi
NoiseInvalid == noise_range # None /\ noise_range[1][1] >= noise_range[1][2]
\* torus was given a radius that is not positive
RadiiBad == sampler = "torus" /\ (major <= 0 \/ minor <= 0)
\* a cloud of exactly n points of dimension d, none of them NaN
WellFormed(cloud, n, d) ==
    /\ Len(cloud) = n
    /\ \A i \in 1..Len(cloud) :
          /\ Len(cloud[i]) = d
          /\ \A j \in 1..d : cloud[i][j] # NaN
\* a call that has not ended can take its next step: the entry statements,
\* add_noise and the return always can, and a finished loop is followed by
\* the call of add_noise (an unfinished loop draws from the constant ranges
\* 0.0..2 pi and -1.0..1.0, which are not empty, and computes)
NotStuck ==
    /\ pc \in {"entry", "add_noise", "return"} => ENABLED Next
    /\ (pc = "generate" /\ Len(pts) >= m) => ENABLED CallAddNoise
\* a and b differ by at most tol representable values
Near(a, b, tol) == Abs(a - b) <= tol
\* x^2 + y^2 (+ z^2) of a point
Norm2(p) == IF Len(p) = 2 THEN p[1] * p[1] + p[2] * p[2]
            ELSE p[1] * p[1] + p[2] * p[2] + p[3] * p[3]

C2_TorusRejectsBadRadii ==
    (sampler = "torus" /\ (major <= 0 \/ minor <= 0)) =>
        /\ pc \in {"entry", "panicked"}
        /\ pc = "entry" => ENABLED TorusAssertFail
        /\ rngDraws = 0
        /\ noiseDraws = 0
        /\ noiseCalls = 0
        /\ pushed = 0
        /\ pts = <<>>
        /\ ret = None

C2_Witness ==
    /\ pc = "panicked"
    /\ sampler = "torus"
    /\ major > 0
    /\ minor <= 0
    /\ m > 0
    /\ noise_range # None
    /\ pushed = 0

\* C3: with a noise interval lo..hi, lo < hi, the returned cloud has the
\* length and the point order of the un-noised cloud, every coordinate (i, j)
\* is the un-noised coordinate (i, j) plus a value of [lo, hi), and add_noise
\* has drawn exactly m * dimension values, one per coordinate.
C3_NoiseAddsOneDrawPerCoordinate ==
    (pc = "done" /\ noise_range # None /\ noise_range[1][1] < noise_range[1][2]) =>
        LET lo == noise_range[1][1]
            hi == noise_range[1][2]
            cloud == ret[1]
        IN  /\ Len(cloud) = Len(raw)
            /\ Len(raw) = m
            /\ \A i \in 1..Len(cloud) :
                  /\ Len(cloud[i]) = Len(raw[i])
                  /\ \A j \in 1..Len(cloud[i]) :
                        /\ lo <= cloud[i][j] - raw[i][j]
                        /\ cloud[i][j] - raw[i][j] < hi
            /\ noiseDraws = m * Dim(sampler)

C3_Witness ==
    /\ pc = "done"
    /\ sampler = "unit_ball"
    /\ m = 2
    /\ noise_range = Some(<<0 - 1, 1>>)
    /\ ret[1][1][1] = raw[1][1] - 1
    /\ ret[1][2][3] = raw[2][3]
    /\ raw[1] # raw[2]
    /\ noiseDraws = 6

\* C4: with the noise interval absent add_noise is a no-op: it draws nothing,
\* it leaves every coordinate of every point as generated, and the cloud the
\* sampler returns is the cloud it had generated before the noise step.
C4_NoNoiseIsNoOp ==
    noise_range = None =>
        /\ noiseDraws = 0
        /\ pc \in {"add_noise", "return", "done"} => pts = raw
        /\ pc = "done" => ret = Some(raw)

C4_Witness ==
    /\ pc = "done"
    /\ noise_range = None
    /\ sampler = "unit_sphere_surface"
    /\ m = 3
    /\ noiseCalls = 1
    /\ ret = Some(raw)
    /\ Len(raw) = 3

\* the successor of index k on a cycle of n points
NextOnCycle(k, n) == (k % n) + 1
\* p, of n >= 3 points, is a regular n-gon on the unit circle run through
\* once, counter-clockwise, in steps of one n-th of a turn: every point to
\* its successor (the last to the first) is one and the same rotation, the
\* one that takes p[1] to p[2]; every step turns left; and the cycle passes
\* the positive x axis from below exactly once
RegularPolygon(p, n) ==
    LET c == p[2][1]
        s == p[2][2]
    IN  /\ \A k \in 1..n :
              LET a == p[k]
                  b == p[NextOnCycle(k, n)]
              IN  /\ Near(b[1], RDiv(a[1] * c - a[2] * s, Scale), 4)
                  /\ Near(b[2], RDiv(a[1] * s + a[2] * c, Scale), 4)
                  /\ a[1] * b[2] - a[2] * b[1] > 0
        /\ Cardinality({k \in 1..n : p[k][2] < 0 - 2 /\ p[NextOnCycle(k, n)][2] >= 0 - 2}) = 1

\* C5: unit_circle(m, None) uses no randomness, and for m >= 1 its k-th
\* point is (cos, sin) of the angle 2 pi k / m, up to rounding: the first
\* point is (1, 0), every point is on the unit circle, and the points follow
\* each other counter-clockwise 2 pi / m apart; unit_circle(4, None) is
\* (1,0), (0,1), (-1,0), (0,-1) in that order.
C5_CircleIsRegularPolygon ==
    (sampler = "unit_circle" /\ noise_range = None) =>
        /\ rngDraws = 0
        /\ noiseDraws = 0
        /\ closureCalls = Len(drawn)
        /\ (pc = "done" /\ m >= 1) =>
              LET p == ret[1]
              IN  /\ Len(p) = m
                  /\ Near(p[1][1], Scale, 1) /\ Near(p[1][2], 0, 1)
                  /\ \A k \in 1..m : Len(p[k]) = 2 /\ Near(Norm2(p[k]), Scale * Scale, 4 * Scale)
                  /\ m = 2 => Near(p[2][1], 0 - Scale, 1) /\ Near(p[2][2], 0, 1)
                  /\ m >= 3 => RegularPolygon(p, m)
                  /\ m = 4 =>
                        /\ Near(p[2][1], 0, 1) /\ Near(p[2][2], Scale, 1)
                        /\ Near(p[3][1], 0 - Scale, 1) /\ Near(p[3][2], 0, 1)
                        /\ Near(p[4][1], 0, 1) /\ Near(p[4][2], 0 - Scale, 1)

C5_Witness ==
    /\ pc = "done"
    /\ sampler = "unit_circle"
    /\ noise_range = None
    /\ m = 4
    /\ closureCalls = 4
    /\ Len(ret[1]) = 4
    /\ ret[1][2][2] > 0
    /\ ret[1][4][2] < 0

\* C6: no division by m = 0 is ever evaluated, and with m = 0 (torus given
\* positive radii) the call invokes no closure, generates no point, draws
\* nothing, does not fail, and returns the empty cloud.
C6_ZeroPoints ==
    /\ ~divByZero
    /\ (m = 0 /\ ~RadiiBad) =>
          /\ closureCalls = 0
          /\ pushed = 0
          /\ rngDraws = 0
          /\ noiseDraws = 0
          /\ pc # "panicked"
          /\ NotStuck
          /\ pc = "done" => ret = Some(<<>>)

C6_Witness ==
    /\ pc = "done"
    /\ sampler = "unit_circle"
    /\ m = 0
    /\ noise_range = Some(<<3, 3>>)
    /\ noiseCalls = 1
    /\ ret = Some(<<>>)

\* C7, as claimed: a call either returns exactly m well-formed points or
\* fails before anything has been produced: no point has been generated and
\* no coordinate perturbed when it fails.
C7_Original ==
    /\ ret # None => pc = "done" /\ WellFormed(ret[1], m, Dim(sampler))
    /\ pc = "panicked" => ret = None /\ pushed = 0 /\ noiseDraws = 0

\* C7, amended: a call ends in exactly one of two ways.  It returns, and
\* then exactly m well-formed points; or it fails, and then it returns
\* nothing, no coordinate has been perturbed, and either no point has been
\* generated (torus' radius check) or all m have been (the first noise draw
\* of an interval with lo >= hi, m >= 1), the generated points being dropped.
C7_AllOrNothing ==
    /\ ret # None => pc = "done" /\ WellFormed(ret[1], m, Dim(sampler))
    /\ pc = "done" => ret # None
    /\ pc = "panicked" =>
          /\ ret = None
          /\ noiseDraws = 0
          /\ pts = <<>>
          /\ \/ pushed = 0 /\ RadiiBad
             \/ pushed = m /\ m >= 1 /\ NoiseInvalid /\ noiseCalls = 1
    /\ NotStuck

C7_Witness ==
    /\ pc = "panicked"
    /\ sampler = "unit_sphere_surface"
    /\ noise_range = Some(<<3, 3>>)
    /\ m = 2
    /\ pushed = 2
    /\ ret = None

BallConstruction(cloud, i) ==
    LET z == drawn[i][2]
        u == drawn[i][3]
        q == RDiv(Norm2(cloud[i]), Scale)
    IN  /\ 0 - Scale <= z /\ z < Scale
        /\ Scale * Scale - z * z >= 0
        /\ 0 <= u /\ u < Scale
        /\ Abs(q * q * q - u * u * Scale) <= 12 * (q + 1) * (q + 1)

StepsInOrder ==
    /\ (sampler = "torus" /\ pushed > 0) => checked
    /\ noiseCalls <= 1
    /\ pushed <= m
    /\ noiseCalls = 1 => (pushed = m /\ Len(raw) = m /\ (sampler = "torus" => checked))
    /\ noiseDraws > 0 => (noiseCalls = 1 /\ pushed = m)
    /\ ret # None => noiseCalls = 1
    /\ pc = "generate" => noiseCalls = 0

\* C10, as claimed: in every sampler call the steps are in this order, and
\* add_noise is called exactly once per call.
C10_Original ==
    /\ StepsInOrder
    /\ Terminal => noiseCalls = 1

\* C10, amended: in every sampler call the steps are in this order, and
\* add_noise is called exactly once per call that passes torus' radius
\* check, also when m = 0 or the noise interval is absent; a torus call
\* whose radius check fails never calls it.
C10_OrderOfSteps ==
    /\ StepsInOrder
    /\ Terminal => noiseCalls = (IF RadiiBad THEN 0 ELSE 1)

C10_Witness ==
    /\ pc = "done"
    /\ sampler = "torus"
    /\ m = 0
    /\ noise_range = None
    /\ checked
    /\ noiseCalls = 1

====
